---- MODULE Spec2Model ----
(***************************************************************************)
(* A model of t1_confection/capital_annualization_script.py: the capital   *)
(* recovery engine (calculate_crf, get_decimal_places,                     *)
(* identify_effective_grouping_columns, calculate_annualized_investment,   *)
(* validate_results) and the pipeline annualize_capital_investment that    *)
(* reads a CSV file, adds the annualized column and overwrites the file.   *)
(*                                                                         *)
(* Further programs of the repository have specifications of their own:    *)
(* run.py (main: the backup, patch and restoration of dvc.yaml around the  *)
(* DVC steps), t1_confection/B1_Run_Compiler.py (main: the backup and      *)
(* restoration of the YAML file around the loop over the scenarios) and    *)
(* t1_confection/B2_Executing_OG_Model.py (chunk_scenarios, and the main   *)
(* block in parallel mode).                                                *)
(*                                                                         *)
(* Numbers.  The script computes in binary floating point.  The model      *)
(* computes in exact rationals <<num, den>> (den > 0, lowest terms); the    *)
(* pair <<0, 0>> is NaN.  Rounding error of the floats is not modelled.     *)
(* Tables.  A DataFrame is [columns |-> set of column names, rows |-> a     *)
(* sequence of functions from the column names to cells].  The position in *)
(* rows is the RangeIndex label that read_csv gives the row.  Cells of the *)
(* grouping columns are the codes "nan" (blank cell), "0" and "1"; YEAR    *)
(* cells are integers (the script says of NaN years that they "shouldn't   *)
(* happen"); cells of the capital and annualized columns are rationals.    *)
(***************************************************************************)
EXTENDS Integers, Sequences, FiniteSets, TLC

(***************************************************************************)
(* Bounds of the model.                                                    *)
(***************************************************************************)
MaxRows == 3
MaxWideRows == 2
MaxWideCols == 2
DecDigits == 1
MaxRuns == 2
MaxWords == 3
MaxScenarios == 3
MaxScenarioList == 5
MaxChunk == 3
MaxParScenarios == 5

(***************************************************************************)
(* Module constants of the script.                                         *)
(***************************************************************************)
ASSET_LIFETIME == 15
CAPITAL_COLUMN == "CapitalInvestment"
NEW_COLUMN_NAME == "CapitalInvestmentAnnualized"
GROUPING_COLUMNS ==
  << "Future", "Scenario", "REGION", "TECHNOLOGY", "FUEL", "EMISSION",
     "MODE_OF_OPERATION", "TIMESLICE", "STORAGE", "SEASON", "DAYTYPE",
     "DAILYTIMEBRACKET" >>

(***************************************************************************)
(* Exact rationals standing for the script's floats.                       *)
(***************************************************************************)
NaN == <<0, 0>>
IsNaN(v) == v[2] = 0
Abs(n) == IF n < 0 THEN -n ELSE n

RECURSIVE GCD(_, _)
GCD(a, b) == IF b = 0 THEN a ELSE GCD(b, a % b)

Rat(n, d) ==
  LET g == GCD(Abs(n), Abs(d))
      s == IF d < 0 THEN -1 ELSE 1
  IN  <<(s * n) \div g, (s * d) \div g>>

Zero == <<0, 1>>
RatAdd(a, b) ==
  IF IsNaN(a) \/ IsNaN(b) THEN NaN
  ELSE LET g == GCD(a[2], b[2])
       IN  Rat(a[1] * (b[2] \div g) + b[1] * (a[2] \div g), (a[2] \div g) * b[2])
RatMul(a, b) ==
  IF IsNaN(a) \/ IsNaN(b) THEN NaN
  ELSE LET g1 == GCD(Abs(a[1]), b[2])
           g2 == GCD(Abs(b[1]), a[2])
       IN  Rat((a[1] \div g1) * (b[1] \div g2), (a[2] \div g2) * (b[2] \div g1))
RatDiv(a, b) == RatMul(a, Rat(b[2], b[1]))
RatPos(a) == ~IsNaN(a) /\ a[1] > 0

RECURSIVE Pow(_, _)
Pow(b, n) == IF n = 0 THEN 1 ELSE b * Pow(b, n - 1)

(***************************************************************************)
(* Sequence helpers.                                                       *)
(***************************************************************************)
Range(s) == {s[i] : i \in DOMAIN s}
SetMax(S) == CHOOSE x \in S : \A y \in S : y <= x
SetMin(S) == CHOOSE x \in S : \A y \in S : x <= y


(***************************************************************************)
(* calculate_crf(discount_rate, lifetime).  A float division by zero is a  *)
(* ZeroDivisionError; a negative exponent is the reciprocal power.         *)
(*   r = p/q:  r(1+r)^n / ((1+r)^n - 1)                                     *)
(***************************************************************************)
RatPow(a, n) ==
  IF n >= 0 THEN Rat(Pow(a[1], n), Pow(a[2], n))
  ELSE Rat(Pow(a[2], -n), Pow(a[1], -n))

CrfRaises(discount_rate, lifetime) ==
  IF discount_rate[1] = 0 THEN lifetime = 0
  ELSE \/ (lifetime < 0 /\ discount_rate[1] + discount_rate[2] = 0)
       \/ RatAdd(RatPow(RatAdd(<<1, 1>>, discount_rate), lifetime), <<-1, 1>>)[1] = 0

\* Variant: the denominator without the "- 1".
calculate_crf_NoMinusOne(discount_rate, lifetime) ==
  IF discount_rate[1] = 0 THEN Rat(1, lifetime)
  ELSE LET growth == RatPow(RatAdd(<<1, 1>>, discount_rate), lifetime)
           numerator == RatMul(discount_rate, growth)
       IN  RatDiv(numerator, growth)

calculate_crf(discount_rate, lifetime) ==
  IF discount_rate[1] = 0 THEN Rat(1, lifetime)
  ELSE LET growth == RatPow(RatAdd(<<1, 1>>, discount_rate), lifetime)
           numerator == RatMul(discount_rate, growth)
           denominator == RatAdd(growth, <<-1, 1>>)
       IN  RatDiv(numerator, denominator)

(***************************************************************************)
(* get_decimal_places(series): the largest number of digits after the      *)
(* decimal point, trailing zeros removed, over the non-null values.  The   *)
(* digits of str(value) are the least d with value * 10^d whole.           *)
(***************************************************************************)
DecimalsOf(v) == SetMin({d \in 0..DecDigits : (v[1] * Pow(10, d)) % v[2] = 0})

get_decimal_places(series) ==
  LET present == {i \in DOMAIN series : ~IsNaN(series[i])}
  IN  IF present = {} THEN 0 ELSE SetMax({DecimalsOf(series[i]) : i \in present} \cup {0})

(***************************************************************************)
(* DataFrame helpers.                                                      *)
(***************************************************************************)
KeyNaN == "nan"
Column(df, col) == [i \in DOMAIN df.rows |-> df.rows[i][col]]
WithCell(row, col, v) ==
  [c \in (DOMAIN row) \cup {col} |-> IF c = col THEN v ELSE row[c]]

(***************************************************************************)
(* identify_effective_grouping_columns(df, potential_columns).  It reads   *)
(* the module constant CAPITAL_COLUMN; df[CAPITAL_COLUMN] is a KeyError    *)
(* when the table has no such column.                                      *)
(***************************************************************************)
CapitalRows(df) == {i \in DOMAIN df.rows : RatPos(df.rows[i][CAPITAL_COLUMN])}

IsEffective(df, col) ==
  /\ col \in df.columns
  /\ LET unique_values == {df.rows[i][col] : i \in CapitalRows(df)} \ {KeyNaN}
     IN  unique_values # {} /\ unique_values # {"0"}

primary_grouping == << "Future", "Scenario", "REGION", "TECHNOLOGY" >>

\* Variant: the effective columns are returned whether or not a primary
\* column is among them.
identify_effective_grouping_columns_AllEffective(df, potential_columns) ==
  IF CapitalRows(df) = {}
  THEN IF {"TECHNOLOGY", "REGION"} \subseteq df.columns
       THEN << "TECHNOLOGY", "REGION" >> ELSE <<>>
  ELSE LET Eff(col) == IsEffective(df, col)
       IN  SelectSeq(potential_columns, Eff)

identify_effective_grouping_columns(df, potential_columns) ==
  IF CapitalRows(df) = {}
  THEN IF {"TECHNOLOGY", "REGION"} \subseteq df.columns
       THEN << "TECHNOLOGY", "REGION" >> ELSE <<>>
  ELSE LET Eff(col) == IsEffective(df, col)
           effective_columns == SelectSeq(potential_columns, Eff)
           InEff(col) == col \in Range(effective_columns)
           primary_available == SelectSeq(primary_grouping, InEff)
       IN  IF primary_available # <<>> THEN primary_available ELSE effective_columns

(***************************************************************************)
(* The grouping of calculate_annualized_investment: the fallback to the    *)
(* default columns, and groupby (dropna: a row with a blank key is in no   *)
(* group).                                                                 *)
(***************************************************************************)
default_cols == << "Future", "Scenario", "REGION", "TECHNOLOGY" >>

\* Variant: without the fallback to the default columns.
existing_grouping_cols_NoDefault(df, grouping_cols) ==
  identify_effective_grouping_columns(df, grouping_cols)

existing_grouping_cols(df, grouping_cols) ==
  LET found == identify_effective_grouping_columns(df, grouping_cols)
      InDf(col) == col \in df.columns
  IN  IF found # <<>> THEN found ELSE SelectSeq(default_cols, InDf)

GroupKey(df, cols, i) == [k \in DOMAIN cols |-> df.rows[i][cols[k]]]
Grouped(df, cols, i) == \A k \in DOMAIN cols : df.rows[i][cols[k]] # KeyNaN
GroupOf(df, cols, i) ==
  {j \in DOMAIN df.rows : Grouped(df, cols, j) /\ GroupKey(df, cols, j) = GroupKey(df, cols, i)}
Groups(df, cols) == {GroupOf(df, cols, i) : i \in {j \in DOMAIN df.rows : Grouped(df, cols, j)}}

(***************************************************************************)
(* group_df.sort_values('YEAR'): ascending, rows of equal year in their    *)
(* order in the table (numpy sorts arrays of at most 16 elements by        *)
(* insertion, which keeps that order).                                     *)
(***************************************************************************)
\* Variant: the rows of the group are left in their order in the table.
RECURSIVE sort_values_TableOrder(_, _)
sort_values_TableOrder(df, indices) ==
  IF indices = {} THEN <<>>
  ELSE LET first == SetMin(indices)
       IN  <<first>> \o sort_values_TableOrder(df, indices \ {first})

RECURSIVE sort_values(_, _)
sort_values(df, indices) ==
  IF indices = {} THEN <<>>
  ELSE LET first == CHOOSE i \in indices : \A j \in indices :
                      \/ df.rows[i]["YEAR"] < df.rows[j]["YEAR"]
                      \/ (df.rows[i]["YEAR"] = df.rows[j]["YEAR"] /\ i <= j)
       IN  <<first>> \o sort_values(df, indices \ {first})

(***************************************************************************)
(* year_to_idx: a later row of the same year replaces the earlier one.     *)
(***************************************************************************)
year_to_idx(years) ==
  [y \in Range(years) |-> SetMax({k \in DOMAIN years : years[k] = y})]

(***************************************************************************)
(* The payment years of the investment at position i:                      *)
(*   range(int(year), min(int(year) + ASSET_LIFETIME, int(years[-1]) + 1)) *)
(* restricted to the years of the group.                                   *)
(***************************************************************************)
Min(a, b) == IF a <= b THEN a ELSE b
payment_years(years, i) ==
  {py \in Range(years) :
     years[i] <= py /\ py < Min(years[i] + ASSET_LIFETIME, years[Len(years)] + 1)}

\* Variant: every investment other than 0 generates payments.
RECURSIVE Distribute_NonZero(_, _, _, _, _)
Distribute_NonZero(years, clean, crf_, i, annualized_values) ==
  IF i > Len(years) THEN annualized_values
  ELSE IF ~IsNaN(clean[i]) /\ clean[i][1] # 0
  THEN LET annual_payment == RatMul(clean[i], crf_)
           hit == {year_to_idx(years)[py] : py \in payment_years(years, i)}
       IN  Distribute_NonZero(years, clean, crf_, i + 1,
             [k \in DOMAIN annualized_values |->
                IF k \in hit THEN RatAdd(annualized_values[k], annual_payment)
                ELSE annualized_values[k]])
  ELSE Distribute_NonZero(years, clean, crf_, i + 1, annualized_values)

RECURSIVE Distribute(_, _, _, _, _)
Distribute(years, clean, crf_, i, annualized_values) ==
  IF i > Len(years) THEN annualized_values
  ELSE IF RatPos(clean[i])
  THEN LET annual_payment == RatMul(clean[i], crf_)
           hit == {year_to_idx(years)[py] : py \in payment_years(years, i)}
       IN  Distribute(years, clean, crf_, i + 1,
             [k \in DOMAIN annualized_values |->
                IF k \in hit THEN RatAdd(annualized_values[k], annual_payment)
                ELSE annualized_values[k]])
  ELSE Distribute(years, clean, crf_, i + 1, annualized_values)

(***************************************************************************)
(* The annualized values of one group, in sorted order.                    *)
(***************************************************************************)
\* Variant: the all-null test taken for any null.
AnnualizeGroup_AnyNull(years, capital_investments, crf_) ==
  IF \E k \in DOMAIN capital_investments : IsNaN(capital_investments[k])
  THEN [k \in DOMAIN years |-> NaN]
  ELSE Distribute(years, capital_investments, crf_, 1, [k \in DOMAIN years |-> Zero])

AnnualizeGroup(years, capital_investments, crf_) ==
  IF \A k \in DOMAIN capital_investments : IsNaN(capital_investments[k])
  THEN [k \in DOMAIN years |-> NaN]
  ELSE LET capital_investments_clean ==
             [k \in DOMAIN capital_investments |->
                IF IsNaN(capital_investments[k]) THEN Zero ELSE capital_investments[k]]
       IN  Distribute(years, capital_investments_clean, crf_, 1,
                      [k \in DOMAIN years |-> Zero])

(***************************************************************************)
(* One pass of the loop over the groups: the values of the group are       *)
(* written to its rows of df_result.                                       *)
(***************************************************************************)
ProcessGroup(rows, df, group_indices, crf_) ==
  LET sorted_indices == sort_values(df, group_indices)
      years == [k \in DOMAIN sorted_indices |-> df.rows[sorted_indices[k]]["YEAR"]]
      capital_investments ==
        [k \in DOMAIN sorted_indices |-> df.rows[sorted_indices[k]][CAPITAL_COLUMN]]
      annualized_values == AnnualizeGroup(years, capital_investments, crf_)
      PosOf(i) == CHOOSE k \in DOMAIN sorted_indices : sorted_indices[k] = i
  IN  [i \in DOMAIN rows |->
         IF i \in group_indices
         THEN WithCell(rows[i], NEW_COLUMN_NAME, annualized_values[PosOf(i)])
         ELSE rows[i]]

\* Variant: the column is reset before each group, so that the values of
\* the group processed last alone remain.
ProcessGroups_Reset(rows, df, groups, crf_) ==
  IF groups = {} THEN rows
  ELSE LET g == CHOOSE x \in groups : \A y \in groups : SetMin(y) <= SetMin(x)
       IN  ProcessGroup(rows, df, g, crf_)

RECURSIVE ProcessGroups(_, _, _, _)
ProcessGroups(rows, df, groups, crf_) ==
  IF groups = {} THEN rows
  ELSE LET g == CHOOSE x \in groups : \A y \in groups : SetMin(x) <= SetMin(y)
       IN  ProcessGroups(ProcessGroup(rows, df, g, crf_), df, groups \ {g}, crf_)

(***************************************************************************)
(* calculate_annualized_investment(df, crf, grouping_cols).                *)
(***************************************************************************)
\* Variant: the result is assembled from the rows of the groups alone.
calculate_annualized_investment_GroupedOnly(df, crf_, grouping_cols) ==
  LET zeroed == [i \in DOMAIN df.rows |-> WithCell(df.rows[i], NEW_COLUMN_NAME, Zero)]
      cols == existing_grouping_cols(df, grouping_cols)
      done == ProcessGroups(zeroed, df, Groups(df, cols), crf_)
      InGroup(row) == \A k \in DOMAIN cols : row[cols[k]] # KeyNaN
  IN  [columns |-> df.columns \cup {NEW_COLUMN_NAME},
       rows |-> IF cols = <<>> THEN zeroed ELSE SelectSeq(done, InGroup)]

\* Variant: an annualized column that the input already has is added to
\* instead of being set to 0.0 first.
calculate_annualized_investment_Accumulate(df, crf_, grouping_cols) ==
  LET zeroed == [i \in DOMAIN df.rows |-> WithCell(df.rows[i], NEW_COLUMN_NAME, Zero)]
      cols == existing_grouping_cols(df, grouping_cols)
      fresh == IF cols = <<>> THEN zeroed
               ELSE ProcessGroups(zeroed, df, Groups(df, cols), crf_)
      Sum(old, new) == IF IsNaN(old) \/ IsNaN(new) THEN new ELSE RatAdd(old, new)
  IN  [columns |-> df.columns \cup {NEW_COLUMN_NAME},
       rows |-> IF NEW_COLUMN_NAME \in df.columns
                THEN [i \in DOMAIN df.rows |->
                        WithCell(fresh[i], NEW_COLUMN_NAME,
                                 Sum(df.rows[i][NEW_COLUMN_NAME], fresh[i][NEW_COLUMN_NAME]))]
                ELSE fresh]

calculate_annualized_investment(df, crf_, grouping_cols) ==
  LET zeroed == [i \in DOMAIN df.rows |-> WithCell(df.rows[i], NEW_COLUMN_NAME, Zero)]
      cols == existing_grouping_cols(df, grouping_cols)
  IN  [columns |-> df.columns \cup {NEW_COLUMN_NAME},
       rows |-> IF cols = <<>> THEN zeroed
                ELSE ProcessGroups(zeroed, df, Groups(df, cols), crf_)]

(***************************************************************************)
(* Series.round(decimals): to the nearest multiple of 10^-decimals, a tie  *)
(* to the even one; NaN stays NaN.                                         *)
(***************************************************************************)
\* Variant: the digits beyond the last place are cut off.
round_Truncate(v, decimals) ==
  IF IsNaN(v) THEN NaN
  ELSE Rat((v[1] * Pow(10, decimals)) \div v[2], Pow(10, decimals))

round(v, decimals) ==
  IF IsNaN(v) THEN NaN
  ELSE LET scaled == v[1] * Pow(10, decimals)
           floor == scaled \div v[2]
           twice == 2 * (scaled % v[2])
           nearest == IF twice < v[2] THEN floor
                      ELSE IF twice > v[2] THEN floor + 1
                      ELSE IF floor % 2 = 0 THEN floor ELSE floor + 1
       IN  Rat(nearest, Pow(10, decimals))

(***************************************************************************)
(* validate_results(df_original, df_result) prints a report; the sample of *)
(* the rows with a positive annualized value selects the columns YEAR,     *)
(* TECHNOLOGY, CAPITAL_COLUMN and NEW_COLUMN_NAME, a KeyError when one of  *)
(* them is not a column of the result.                                     *)
(***************************************************************************)
validate_results_raises(df_original, result) ==
  \/ CAPITAL_COLUMN \notin df_original.columns
  \/ /\ NEW_COLUMN_NAME \in result.columns
     /\ \E i \in DOMAIN result.rows : RatPos(result.rows[i][NEW_COLUMN_NAME])
     /\ ~({"YEAR", "TECHNOLOGY", CAPITAL_COLUMN, NEW_COLUMN_NAME} \subseteq result.columns)

(***************************************************************************)
(* The state: the backing file, the arguments of the invocation, and the   *)
(* locals of annualize_capital_investment.                                 *)
(*   file       the CSV file: [exists, columns, rows]                      *)
(*   args       the arguments; <<>> is None, <<v>> is the value v          *)
(*   pc         the step the invocation is at                              *)
(*   crf        the capital recovery factor                                *)
(*   df         the table read from the file                               *)
(*   df_result  the table with the annualized column                       *)
(*   err        the exception that ended the invocation, and its subject   *)
(*   before     the file as it was when the invocation began               *)
(*   saves      how often this invocation has written the file             *)
(*   runs       the number of invocations begun                            *)
(*   prev       how the previous invocation ended ("none" for the first)   *)
(***************************************************************************)
VARIABLES file, args, pc, crf, df, df_result, err, before, saves, runs, prev

engine_vars == <<file, args, pc, crf, df, df_result, err, before, saves, runs, prev>>

(***************************************************************************)
(* The state of run.py (main):                                             *)
(*   dvc_file     dvc.yaml: [exists, text], the text a sequence of words   *)
(*   backup       the backup file of dvc.yaml: [exists, text]              *)
(*   backup_path  the local variable: <<>> is None, <<"bak">> the path     *)
(*   run_pc       the step main is at                                      *)
(*   run_exc      the exception that is propagating, "" for none           *)
(*   dvc_before   dvc.yaml as it was when main began                       *)
(*   conda_env    whether the Conda environment existed when main began    *)
(*   dvc_remote   whether a DVC remote is configured                       *)
(*   run_log      the steps taken so far: <<step, "ok" or "failed">>       *)
(***************************************************************************)
VARIABLES dvc_file, backup, backup_path, run_pc, run_exc, dvc_before,
          conda_env, dvc_remote, run_log

run_vars == <<dvc_file, backup, backup_path, run_pc, run_exc, dvc_before,
              conda_env, dvc_remote, run_log>>

(***************************************************************************)
(* The state of B1_Run_Compiler.py (main):                                 *)
(*   yaml_file          MOMF_T1_A.yaml: [exists, text]                     *)
(*   yaml_backup        MOMF_T1_A.yaml.bak: [exists, text]                 *)
(*   scenario_suffixes  the scenarios discovered                           *)
(*   b1_i               the position of the loop in scenario_suffixes      *)
(*   b1_pc              the step main is at                                *)
(*   b1_exc             the exception that is propagating, "" for none     *)
(*   yaml_before        the YAML file as it was when main began            *)
(*   yaml_handlers      what try_import_yaml_handlers finds in this        *)
(*                      environment: "ruamel", "pyyaml" or "none"          *)
(*   b1_log             what has happened so far: <<position, event>>      *)
(***************************************************************************)
VARIABLES yaml_file, yaml_backup, scenario_suffixes, b1_i, b1_pc, b1_exc, yaml_before,
          yaml_handlers, b1_log

b1_vars == <<yaml_file, yaml_backup, scenario_suffixes, b1_i, b1_pc, b1_exc, yaml_before,
             yaml_handlers, b1_log>>

(***************************************************************************)
(* The state of a call of chunk_scenarios (B2_Executing_OG_Model.py):      *)
(*   scenarios, max_x_per_iter  the arguments                              *)
(*   b2_pc                      "call", "returned" or "raised"             *)
(*   b2_result                  the list returned, or the exception        *)
(* and of the parallel mode of its main block:                             *)
(*   b2_chunk   the position of the loop over the chunks                   *)
(*   b2_k       the position of the loop that starts, or joins, the        *)
(*              processes of the chunk                                     *)
(*   procs      the processes created so far, in order: the scenario, the  *)
(*              chunk and whether the process is alive or has terminated   *)
(***************************************************************************)
VARIABLES scenarios, max_x_per_iter, b2_pc, b2_result, b2_chunk, b2_k, procs

b2_vars == <<scenarios, max_x_per_iter, b2_pc, b2_result, b2_chunk, b2_k, procs>>

vars == <<engine_vars, run_vars, b1_vars, b2_vars>>

NoError == <<"none", "">>
NoTable == [columns |-> {}, rows |-> <<>>]
NoFile == [exists |-> FALSE, columns |-> {}, rows |-> <<>>]
Table(f) == [columns |-> f.columns, rows |-> f.rows]

discount_rate == args.discount_rate
asset_lifetime ==
  IF args.asset_lifetime = <<>> THEN ASSET_LIFETIME ELSE args.asset_lifetime[1]
capital_column ==
  IF args.capital_column = <<>> THEN CAPITAL_COLUMN ELSE args.capital_column[1]
new_column_name ==
  IF args.new_column_name = <<>> THEN NEW_COLUMN_NAME ELSE args.new_column_name[1]
grouping_columns == GROUPING_COLUMNS

(***************************************************************************)
(* The inputs: tables and arguments drawn from bounded sets.               *)
(***************************************************************************)
YearVals == {2020, 2021, 2035}
KeyVals == {KeyNaN, "0", "1"}
CapVals == {NaN, Zero, <<1, 2>>, <<1, 1>>}
WideYearVals == {2020, 2021}
WideCapVals == {NaN, <<-1, 1>>, <<1, 1>>}
WideKeyCols == {"REGION", "TECHNOLOGY", "FUEL"}

RowsOver(keycols, capname, hasYear, years, caps) ==
  LET D == keycols \cup {capname} \cup (IF hasYear THEN {"YEAR"} ELSE {})
  IN  {[c \in D |-> IF c \in keycols THEN k[c] ELSE IF c = "YEAR" THEN y ELSE v] :
         k \in [keycols -> KeyVals], y \in years, v \in caps}

FileOver(keycols, capname, hasYear, years, caps, maxrows) ==
  LET D == keycols \cup {capname} \cup (IF hasYear THEN {"YEAR"} ELSE {})
      R == RowsOver(keycols, capname, hasYear, years, caps)
  IN  \E n \in 1..maxrows : \E rs \in [1..n -> R] :
        file = [exists |-> TRUE, columns |-> D, rows |-> rs]

DefaultArgs(rate, life) ==
  [discount_rate |-> rate, asset_lifetime |-> life,
   capital_column |-> <<>>, new_column_name |-> <<>>]

\* One grouping column, up to MaxRows rows, the default column names.
InitDeep ==
  /\ FileOver({"TECHNOLOGY"}, CAPITAL_COLUMN, TRUE, YearVals, CapVals, MaxRows)
  /\ args = DefaultArgs(<<1, 1>>, <<2>>)

\* Any grouping columns, up to MaxWideRows rows.
InitWide ==
  /\ \E keycols \in {k \in SUBSET WideKeyCols : Cardinality(k) <= MaxWideCols} :
       FileOver(keycols, CAPITAL_COLUMN, TRUE, WideYearVals, WideCapVals, MaxWideRows)
  /\ args \in {DefaultArgs(r, l) : r \in {Zero, <<1, 1>>}, l \in {<<>>, <<1>>}}

\* The column names of the file and of the arguments, one row.
InitNames ==
  /\ \E capname \in {CAPITAL_COLUMN, "Capex"}, hasYear \in BOOLEAN :
       \/ FileOver({"TECHNOLOGY"}, capname, hasYear, {2020}, {<<1, 2>>, <<1, 1>>}, 1)
       \/ file = NoFile
  /\ args \in [discount_rate : {Zero, <<1, 1>>, <<-1, 2>>},
               asset_lifetime : {<<>>, <<0>>, <<-1>>, <<2>>},
               capital_column : {<<>>, <<"Capex">>},
               new_column_name : {<<>>, <<"Annual">>}]

\* The four primary columns and FUEL, one row with a positive investment.
InitCanon ==
  /\ FileOver({"Future", "Scenario", "REGION", "TECHNOLOGY", "FUEL"},
              CAPITAL_COLUMN, TRUE, {2020}, {<<1, 1>>}, 1)
  /\ args = DefaultArgs(<<1, 1>>, <<1>>)

\* A program that is not running.
NoText == [exists |-> FALSE, text |-> <<>>]
EngineIdle ==
  /\ file = NoFile
  /\ args = DefaultArgs(Zero, <<>>)
  /\ pc = "idle"
  /\ crf = NaN
  /\ df = NoTable
  /\ df_result = NoTable
  /\ err = NoError
  /\ before = NoFile
  /\ saves = 0
  /\ runs = 1
  /\ prev = "none"
RunIdle ==
  /\ dvc_file = NoText
  /\ backup = NoText
  /\ backup_path = <<>>
  /\ run_pc = "idle"
  /\ run_exc = ""
  /\ dvc_before = NoText
  /\ conda_env = FALSE
  /\ dvc_remote = FALSE
  /\ run_log = <<>>
B1Idle ==
  /\ yaml_file = NoText
  /\ yaml_backup = NoText
  /\ scenario_suffixes = <<>>
  /\ b1_i = 0
  /\ b1_pc = "idle"
  /\ b1_exc = ""
  /\ yaml_before = NoText
  /\ yaml_handlers = "none"
  /\ b1_log = <<>>
B2Idle ==
  /\ scenarios = <<>>
  /\ max_x_per_iter = 0
  /\ b2_pc = "idle"
  /\ b2_result = <<>>
  /\ b2_chunk = 0
  /\ b2_k = 0
  /\ procs = <<>>

Init ==
  /\ RunIdle /\ B1Idle /\ B2Idle
  /\ InitDeep \/ InitWide \/ InitNames \/ InitCanon
  /\ pc = "begin"
  /\ crf = NaN
  /\ df = NoTable
  /\ df_result = NoTable
  /\ err = NoError
  /\ before = file
  /\ saves = 0
  /\ runs = 1
  /\ prev = "none"

Raise(e, what) ==
  /\ pc' = "raised"
  /\ err' = <<e, what>>

(***************************************************************************)
(* annualize_capital_investment, step by step.                             *)
(***************************************************************************)
\* Steps 1 and 2: the file must exist; the CRF is computed.
Begin ==
  /\ pc = "begin"
  /\ IF ~file.exists THEN Raise("FileNotFoundError", "input_file_path") /\ UNCHANGED crf
     ELSE IF CrfRaises(discount_rate, asset_lifetime)
     THEN Raise("ZeroDivisionError", "calculate_crf") /\ UNCHANGED crf
     ELSE /\ crf' = calculate_crf(discount_rate, asset_lifetime)
          /\ pc' = "read"
          /\ UNCHANGED err
  /\ UNCHANGED <<file, args, df, df_result, before, saves, runs, prev>>
  /\ UNCHANGED <<run_vars, b1_vars, b2_vars>>

\* Step 3: pd.read_csv.
ReadCsv ==
  /\ pc = "read"
  /\ df' = Table(file)
  /\ pc' = "validate"
  /\ UNCHANGED <<file, args, crf, df_result, err, before, saves, runs, prev>>
  /\ UNCHANGED <<run_vars, b1_vars, b2_vars>>

\* Variant: the module constant is looked up instead of the argument.
ValidateColumns_ModuleConstant ==
  /\ pc = "validate"
  /\ IF CAPITAL_COLUMN \notin df.columns \/ "YEAR" \notin df.columns
     THEN Raise("ValueError", IF CAPITAL_COLUMN \notin df.columns THEN CAPITAL_COLUMN ELSE "YEAR")
     ELSE pc' = "calculate" /\ UNCHANGED err
  /\ UNCHANGED <<file, args, crf, df, df_result, before, saves, runs, prev>>
  /\ UNCHANGED <<run_vars, b1_vars, b2_vars>>

\* The required columns: capital_column and YEAR.
ValidateColumns ==
  /\ pc = "validate"
  /\ IF capital_column \notin df.columns \/ "YEAR" \notin df.columns
     THEN Raise("ValueError", IF capital_column \notin df.columns THEN capital_column ELSE "YEAR")
     ELSE pc' = "calculate" /\ UNCHANGED err
  /\ UNCHANGED <<file, args, crf, df, df_result, before, saves, runs, prev>>
  /\ UNCHANGED <<run_vars, b1_vars, b2_vars>>

\* Step 5: calculate_annualized_investment(df, crf, grouping_columns).
Calculate ==
  /\ pc = "calculate"
  /\ IF CAPITAL_COLUMN \notin df.columns
     THEN Raise("KeyError", CAPITAL_COLUMN) /\ UNCHANGED df_result
     ELSE /\ df_result' = calculate_annualized_investment(df, crf, grouping_columns)
          /\ pc' = "round"
          /\ UNCHANGED err
  /\ UNCHANGED <<file, args, crf, df, before, saves, runs, prev>>
  /\ UNCHANGED <<run_vars, b1_vars, b2_vars>>

\* Step 6: the column is rounded when the input shows decimal places.
RoundColumn ==
  /\ pc = "round"
  /\ LET decimal_places == get_decimal_places(Column(df, capital_column))
     IN  IF decimal_places > 0
         THEN IF new_column_name \notin df_result.columns
              THEN Raise("KeyError", new_column_name) /\ UNCHANGED df_result
              ELSE /\ df_result' =
                        [df_result EXCEPT !.rows =
                           [i \in DOMAIN df_result.rows |->
                              WithCell(df_result.rows[i], new_column_name,
                                       round(df_result.rows[i][new_column_name], decimal_places))]]
                   /\ pc' = "save"
                   /\ UNCHANGED err
         ELSE pc' = "save" /\ UNCHANGED <<df_result, err>>
  /\ UNCHANGED <<file, args, crf, df, before, saves, runs, prev>>
  /\ UNCHANGED <<run_vars, b1_vars, b2_vars>>

\* Step 7: df_result.to_csv(input_path).
SaveCsv ==
  /\ pc = "save"
  /\ file' = [exists |-> TRUE, columns |-> df_result.columns, rows |-> df_result.rows]
  /\ saves' = saves + 1
  /\ pc' = "report"
  /\ UNCHANGED <<args, crf, df, df_result, err, before, runs, prev>>
  /\ UNCHANGED <<run_vars, b1_vars, b2_vars>>

\* Variant: the table is written to the file once more after the report.
Report_Rewrite ==
  /\ pc = "report"
  /\ IF validate_results_raises(df, df_result)
     THEN Raise("KeyError", "TECHNOLOGY") /\ UNCHANGED <<file, saves>>
     ELSE /\ file' = [exists |-> TRUE, columns |-> df_result.columns, rows |-> df_result.rows]
          /\ saves' = saves + 1
          /\ pc' = "returned"
          /\ UNCHANGED err
  /\ UNCHANGED <<args, crf, df, df_result, before, runs, prev>>
  /\ UNCHANGED <<run_vars, b1_vars, b2_vars>>

\* Step 8: validate_results, then the table is returned.
Report ==
  /\ pc = "report"
  /\ IF validate_results_raises(df, df_result)
     THEN Raise("KeyError", "TECHNOLOGY")
     ELSE pc' = "returned" /\ UNCHANGED err
  /\ UNCHANGED <<file, args, crf, df, df_result, before, saves, runs, prev>>
  /\ UNCHANGED <<run_vars, b1_vars, b2_vars>>

\* The script is invoked again on the file as it now is, with the same arguments.
Invoke ==
  /\ pc \in {"returned", "raised"}
  /\ runs < MaxRuns
  /\ runs' = runs + 1
  /\ prev' = pc
  /\ pc' = "begin"
  /\ crf' = NaN
  /\ df' = NoTable
  /\ df_result' = NoTable
  /\ err' = NoError
  /\ before' = file
  /\ saves' = 0
  /\ UNCHANGED <<file, args>>
  /\ UNCHANGED <<run_vars, b1_vars, b2_vars>>

Next ==
  \/ Begin
  \/ ReadCsv
  \/ ValidateColumns
  \/ Calculate
  \/ RoundColumn
  \/ SaveCsv
  \/ Report
  \/ Invoke

Spec == Init /\ [][Next]_vars

(***************************************************************************)
(* run.py.  dvc.yaml is a sequence of words; "fecha" is the placeholder    *)
(* that main replaces by the date stamp while the pipeline runs.  The      *)
(* copies and the unlink of restore_and_delete_backup are taken to         *)
(* succeed; every step between the backup and the finally clause may       *)
(* raise.                                                                  *)
(***************************************************************************)
Words == {"fecha", "cmd"}
date_stamp == "2025-08-21"
Texts == UNION {[1..n -> Words] : n \in 0..MaxWords}

\* patch_fecha_anywhere: text.replace("fecha", date_stamp) and the count.
Count(text, w) == Cardinality({k \in DOMAIN text : text[k] = w})
Replace(text, w, by) == [k \in DOMAIN text |-> IF text[k] = w THEN by ELSE text[k]]
Prefixes(text) == {SubSeq(text, 1, n) : n \in 0..Len(text)}

InitRun ==
  /\ EngineIdle /\ B1Idle /\ B2Idle
  /\ dvc_file \in {[exists |-> TRUE, text |-> t] : t \in Texts} \cup {NoText}
  /\ backup = NoText
  /\ backup_path = <<>>
  /\ run_pc = "check_tool"
  /\ run_exc = ""
  /\ dvc_before = dvc_file
  /\ conda_env \in BOOLEAN
  /\ dvc_remote \in BOOLEAN
  /\ run_log = <<>>

RunFrame == UNCHANGED <<engine_vars, b1_vars, b2_vars, dvc_before, conda_env, dvc_remote>>

\* A step of the try block raises: control passes to the finally clause.
RunRaise(e) ==
  /\ run_exc' = e
  /\ run_pc' = "finally"

\* check_tool_available("conda"), before the try block.
CheckTool ==
  /\ run_pc = "check_tool"
  /\ \/ run_pc' = "backup" /\ UNCHANGED run_exc
     \/ run_pc' = "raised" /\ run_exc' = "RuntimeError"
  /\ UNCHANGED <<dvc_file, backup, backup_path, run_log>>
  /\ RunFrame

\* backup_file(dvc_file).
BackupFile ==
  /\ run_pc = "backup"
  /\ IF ~dvc_file.exists
     THEN /\ RunRaise("FileNotFoundError")
          /\ run_log' = Append(run_log, <<"backup", "failed">>)
          /\ UNCHANGED <<backup, backup_path>>
     ELSE /\ backup' = dvc_file
          /\ backup_path' = <<"bak">>
          /\ run_pc' = "patch"
          /\ run_log' = Append(run_log, <<"backup", "ok">>)
          /\ UNCHANGED run_exc
  /\ UNCHANGED dvc_file
  /\ RunFrame

\* patch_fecha_anywhere(dvc_file, date_stamp): the text is written when it
\* holds the placeholder; the read may fail, and the write may fail after
\* any part of the text.
PatchFecha ==
  /\ run_pc = "patch"
  /\ LET patched == Replace(dvc_file.text, "fecha", date_stamp)
     IN  \/ /\ dvc_file' = IF Count(dvc_file.text, "fecha") > 0
                           THEN [dvc_file EXCEPT !.text = patched] ELSE dvc_file
            /\ run_pc' = "create_env"
            /\ run_log' = Append(run_log, <<"patch", "ok">>)
            /\ UNCHANGED run_exc
         \/ /\ RunRaise("UnicodeDecodeError")
            /\ run_log' = Append(run_log, <<"patch", "failed">>)
            /\ UNCHANGED dvc_file
         \/ /\ Count(dvc_file.text, "fecha") > 0
            /\ \E part \in Prefixes(patched) : dvc_file' = [dvc_file EXCEPT !.text = part]
            /\ run_log' = Append(run_log, <<"patch", "failed">>)
            /\ RunRaise("OSError")
  /\ UNCHANGED <<backup, backup_path>>
  /\ RunFrame

\* A step that runs commands and leaves dvc.yaml alone: it returns or raises.
ReturnsOrRaises(step, next) ==
  /\ \/ /\ run_pc' = next
        /\ run_log' = Append(run_log, <<step, "ok">>)
        /\ UNCHANGED run_exc
     \/ /\ RunRaise("CalledProcessError")
        /\ run_log' = Append(run_log, <<step, "failed">>)
  /\ UNCHANGED <<dvc_file, backup, backup_path>>
  /\ RunFrame

\* env_exists(name): the environments listed by "conda env list --json" or,
\* when that fails, by "conda env list"; False when both fail.
env_exists(json_listing, text_listing) ==
  IF json_listing THEN conda_env
  ELSE IF text_listing THEN conda_env
  ELSE FALSE

\* create_env_if_missing: "conda env create" unless env_exists.
CreateEnv ==
  /\ run_pc = "create_env"
  /\ \E json_listing \in BOOLEAN, text_listing \in BOOLEAN :
       IF env_exists(json_listing, text_listing)
       THEN /\ run_pc' = "ensure_deps"
            /\ run_log' = Append(run_log, <<"env exists", "ok">>)
            /\ UNCHANGED <<run_exc, dvc_file, backup, backup_path>>
            /\ RunFrame
       ELSE ReturnsOrRaises("conda env create", "ensure_deps")

EnsureDeps ==
  /\ run_pc = "ensure_deps"
  /\ ReturnsOrRaises("ensure_deps", "ensure_dvc_repo")

EnsureDvcRepo ==
  /\ run_pc = "ensure_dvc_repo"
  /\ ReturnsOrRaises("ensure_dvc_repo", "pull")

\* has_dvc_remote: "dvc remote list" with stderr joined to stdout; False when
\* the command fails, else whether anything was printed.
has_dvc_remote(listing, warnings) ==
  IF ~listing THEN FALSE ELSE dvc_remote \/ warnings

\* dvc pull, only when has_dvc_remote.
DvcPull ==
  /\ run_pc = "pull"
  /\ \E listing \in BOOLEAN, warnings \in BOOLEAN :
       IF has_dvc_remote(listing, warnings)
       THEN ReturnsOrRaises("dvc pull", "repro")
       ELSE /\ run_pc' = "repro"
            /\ UNCHANGED <<run_exc, run_log, dvc_file, backup, backup_path>>
            /\ RunFrame

\* dvc repro; then the try block is left.
DvcRepro ==
  /\ run_pc = "repro"
  /\ ReturnsOrRaises("dvc repro", "finally")

\* restore_and_delete_backup(backup_path, target).
restore_and_delete_backup ==
  IF backup_path # <<>> /\ backup.exists
  THEN dvc_file' = backup /\ backup' = NoText
  ELSE UNCHANGED <<dvc_file, backup>>

\* Variant: the restore at the end of the try block instead of in a finally clause.
RunFinally_NoFinally ==
  /\ run_pc = "finally"
  /\ IF backup_path # <<>> /\ run_exc = ""
     THEN restore_and_delete_backup
     ELSE UNCHANGED <<dvc_file, backup>>
  /\ run_pc' = IF run_exc = "" THEN "returned" ELSE "raised"
  /\ UNCHANGED <<backup_path, run_exc, run_log>>
  /\ RunFrame

\* The finally clause; then main returns, or the exception leaves main.
RunFinally ==
  /\ run_pc = "finally"
  /\ IF backup_path # <<>>
     THEN restore_and_delete_backup
     ELSE UNCHANGED <<dvc_file, backup>>
  /\ run_pc' = IF run_exc = "" THEN "returned" ELSE "raised"
  /\ UNCHANGED <<backup_path, run_exc, run_log>>
  /\ RunFrame

NextRun ==
  \/ CheckTool
  \/ BackupFile
  \/ PatchFecha
  \/ CreateEnv
  \/ EnsureDeps
  \/ EnsureDvcRepo
  \/ DvcPull
  \/ DvcRepro
  \/ RunFinally

SpecRun == InitRun /\ [][NextRun]_vars

(***************************************************************************)
(* B1_Run_Compiler.py.  The text of the YAML file is <<top, value>>: top   *)
(* says whether the top level has the mapping xtra_scen; value is what     *)
(* stands after "Main_Scenario:", a sequence of names: <<"Base">> is the   *)
(* value Base, <<>> says that there is no Main_Scenario line, and a longer *)
(* sequence is a line such as  Main_Scenario: 'NDC'Base'  that no YAML     *)
(* parser reads.  The text <<>> is a file cut short by a failed write.     *)
(* The scenarios are the suffixes of the folders A1_Outputs_*, distinct    *)
(* and in sorted order.  The move of the finally clause is taken to        *)
(* succeed.                                                                *)
(***************************************************************************)
ScenarioNames == << "BAU", "NDC", "NDC+ELC", "NZ" >>
YamlTexts ==
  {<<"xtra_scen", <<"Base">> >>, <<"xtra_scen", <<>> >>, <<"other", <<"Base">> >>}
SeqsUpTo(S, n) == UNION {[1..k -> S] : k \in 0..n}

\* list_scenario_suffixes: the names at the positions S of the sorted folders.
RECURSIVE list_scenario_suffixes(_)
list_scenario_suffixes(S) ==
  IF S = {} THEN <<>>
  ELSE <<ScenarioNames[SetMin(S)]>> \o list_scenario_suffixes(S \ {SetMin(S)})

InitB1 ==
  /\ EngineIdle /\ RunIdle /\ B2Idle
  /\ yaml_file \in {[exists |-> TRUE, text |-> t] : t \in YamlTexts} \cup {NoText}
  /\ yaml_backup = NoText
  /\ scenario_suffixes \in
       {list_scenario_suffixes(S) :
          S \in {T \in SUBSET (DOMAIN ScenarioNames) : Cardinality(T) <= MaxScenarios}}
  /\ b1_i = 0
  /\ b1_pc = "checks"
  /\ b1_exc = ""
  /\ yaml_before = yaml_file
  /\ yaml_handlers \in {"ruamel", "pyyaml", "none"}
  /\ b1_log = <<>>

B1Frame ==
  UNCHANGED <<engine_vars, run_vars, b2_vars, scenario_suffixes, yaml_before, yaml_handlers>>

\* The files must exist and a scenario must have been discovered, else sys.exit.
B1Checks ==
  /\ b1_pc = "checks"
  /\ \E compiler_script_is_file \in BOOLEAN :
       b1_pc' = IF yaml_file.exists /\ compiler_script_is_file /\ scenario_suffixes # <<>>
                THEN "backup" ELSE "exited"
  /\ UNCHANGED <<yaml_file, yaml_backup, b1_i, b1_exc, b1_log>>
  /\ B1Frame

\* shutil.copy2(yaml_file, backup_path); the loop begins.
B1Backup ==
  /\ b1_pc = "backup"
  /\ yaml_backup' = yaml_file
  /\ b1_i' = 1
  /\ b1_pc' = "update"
  /\ UNCHANGED <<yaml_file, b1_exc, b1_log>>
  /\ B1Frame

\* regex_update_main_scenario: the pattern
\*   (Main_Scenario:\s*)['"]?.*?['"]?
\* matches "Main_Scenario:" and at most an opening quote, the lazy .*? taking
\* nothing, so that 'new_value' is put before the old value, which stays.
\* Without a Main_Scenario line the text is returned as it is.
regex_update_main_scenario(yaml_text, new_value) ==
  IF yaml_text = <<>> \/ yaml_text[2] = <<>> THEN yaml_text
  ELSE <<yaml_text[1], <<new_value>> \o yaml_text[2]>>

\* update_main_scenario(yaml_path, new_value).  With ruamel.yaml or PyYAML:
\* the file is parsed, ValueError when xtra_scen is missing, else the value
\* is set and the file written.  With neither, the text is rewritten through
\* the regular expression.  A failed write leaves a file cut short.
update_main_scenario(new_value, handlers, written) ==
  IF handlers # "none"
  THEN IF \/ yaml_file.text = <<>>
          \/ yaml_file.text[1] # "xtra_scen"
          \/ Len(yaml_file.text[2]) > 1
       THEN [raised |-> TRUE, file |-> yaml_file]
       ELSE IF ~written
       THEN [raised |-> TRUE, file |-> [yaml_file EXCEPT !.text = <<>>]]
       ELSE [raised |-> FALSE,
             file |-> [yaml_file EXCEPT !.text = <<"xtra_scen", <<new_value>> >>]]
  ELSE IF ~written
  THEN [raised |-> TRUE, file |-> [yaml_file EXCEPT !.text = <<>>]]
  ELSE [raised |-> FALSE,
        file |-> [yaml_file EXCEPT
                    !.text = regex_update_main_scenario(yaml_file.text, new_value)]]

\* One pass of the loop, step 1: a failure is reported and the loop goes on
\* with the next scenario.
B1Update ==
  /\ b1_pc = "update"
  /\ \E written \in BOOLEAN :
       LET r == update_main_scenario(scenario_suffixes[b1_i], yaml_handlers, written)
       IN  /\ yaml_file' = r.file
           /\ b1_log' = Append(b1_log, <<b1_i, IF r.raised THEN "update failed" ELSE "updated">>)
           /\ IF r.raised
              THEN IF b1_i < Len(scenario_suffixes)
                   THEN b1_i' = b1_i + 1 /\ b1_pc' = "update"
                   ELSE b1_pc' = "finally" /\ UNCHANGED b1_i
              ELSE b1_pc' = "compile" /\ UNCHANGED b1_i
  /\ UNCHANGED <<yaml_backup, b1_exc>>
  /\ B1Frame

\* One pass of the loop, step 2: run_compiler returns an exit code, which is
\* reported, or raises.
B1RunCompiler ==
  /\ b1_pc = "compile"
  /\ \/ \E rc \in {0, 1} :
          /\ b1_log' = Append(b1_log, <<b1_i, IF rc = 0 THEN "compiled" ELSE "compiler failed">>)
          /\ IF b1_i < Len(scenario_suffixes)
             THEN b1_i' = b1_i + 1 /\ b1_pc' = "update"
             ELSE b1_pc' = "finally" /\ UNCHANGED b1_i
          /\ UNCHANGED b1_exc
     \/ /\ b1_exc' = "FileNotFoundError"
        /\ b1_pc' = "finally"
        /\ UNCHANGED <<b1_i, b1_log>>
  /\ UNCHANGED <<yaml_file, yaml_backup>>
  /\ B1Frame

\* Variant: the restore after the loop instead of in a finally clause.
B1Finally_NoFinally ==
  /\ b1_pc = "finally"
  /\ IF b1_exc = ""
     THEN yaml_file' = yaml_backup /\ yaml_backup' = NoText
     ELSE UNCHANGED <<yaml_file, yaml_backup>>
  /\ b1_pc' = IF b1_exc = "" THEN "done" ELSE "raised"
  /\ UNCHANGED <<b1_i, b1_exc, b1_log>>
  /\ B1Frame

\* The finally clause: shutil.move(backup_path, yaml_file).
B1Finally ==
  /\ b1_pc = "finally"
  /\ yaml_file' = yaml_backup
  /\ yaml_backup' = NoText
  /\ b1_pc' = IF b1_exc = "" THEN "done" ELSE "raised"
  /\ UNCHANGED <<b1_i, b1_exc, b1_log>>
  /\ B1Frame

NextB1 ==
  \/ B1Checks
  \/ B1Backup
  \/ B1Update
  \/ B1RunCompiler
  \/ B1Finally

SpecB1 == InitB1 /\ [][NextB1]_vars

(***************************************************************************)
(* B2_Executing_OG_Model.py: chunk_scenarios(scenarios, max_x_per_iter).   *)
(***************************************************************************)
\* scenarios[i : i + max_x_per_iter], i counted from 0.
Slice(list, i, n) == SubSeq(list, i + 1, Min(i + n, Len(list)))

\* Variant: a last chunk that is not full is left out.
RECURSIVE ChunksFrom_FullOnly(_, _, _)
ChunksFrom_FullOnly(list, i, n) ==
  IF i + n > Len(list) THEN <<>>
  ELSE <<Slice(list, i, n)>> \o ChunksFrom_FullOnly(list, i + n, n)

\* The comprehension over range(0, len(scenarios), max_x_per_iter), from i on.
RECURSIVE ChunksFrom(_, _, _)
ChunksFrom(list, i, n) ==
  IF i >= Len(list) THEN <<>>
  ELSE <<Slice(list, i, n)>> \o ChunksFrom(list, i + n, n)

chunk_scenarios(list, n) ==
  IF n <= 0 THEN [raised |-> "ValueError", value |-> <<>>]
  ELSE [raised |-> "", value |-> ChunksFrom(list, 0, n)]

ScenarioValues == {"a", "b"}

InitB2 ==
  /\ EngineIdle /\ RunIdle /\ B1Idle
  /\ scenarios \in SeqsUpTo(ScenarioValues, MaxScenarioList)
  /\ max_x_per_iter \in -1..MaxChunk
  /\ b2_pc = "call"
  /\ b2_result = <<>>
  /\ b2_chunk = 0
  /\ b2_k = 0
  /\ procs = <<>>

ChunkCall ==
  /\ b2_pc = "call"
  /\ LET r == chunk_scenarios(scenarios, max_x_per_iter)
     IN  /\ b2_pc' = IF r.raised = "" THEN "returned" ELSE "raised"
         /\ b2_result' = r.value
  /\ UNCHANGED <<scenarios, max_x_per_iter, b2_chunk, b2_k, procs>>
  /\ UNCHANGED <<engine_vars, run_vars, b1_vars>>

NextB2 == ChunkCall

SpecB2 == InitB2 /\ [][NextB2]_vars

(***************************************************************************)
(* B2_Executing_OG_Model.py, the main block in parallel mode               *)
(* (params['parallel'] with execute_model or create_matrix): the scenarios *)
(* are the folders that os.listdir found, distinct names.  A process that  *)
(* has been started terminates at any later moment; join waits for it.     *)
(***************************************************************************)
ScenarioFolders == << "BAU", "NDC", "NZ30", "NZ40", "NZ50", "HIGH" >>

InitB2Main ==
  /\ EngineIdle /\ RunIdle /\ B1Idle
  /\ scenarios \in {SubSeq(ScenarioFolders, 1, n) : n \in 0..MaxParScenarios}
  /\ max_x_per_iter \in -1..MaxChunk
  /\ b2_pc = "parallel"
  /\ b2_result = <<>>
  /\ b2_chunk = 0
  /\ b2_k = 0
  /\ procs = <<>>

B2Frame == UNCHANGED <<engine_vars, run_vars, b1_vars, scenarios, max_x_per_iter>>

\* The processes of the chunk at position c, in the order of their start.
processes(c) == SelectSeq(procs, LAMBDA p : p.chunk = c)

\* scenarios_list_max_per_iter = chunk_scenarios(scenarios, max_x_per_iter).
ParChunks ==
  /\ b2_pc = "parallel"
  /\ LET r == chunk_scenarios(scenarios, max_x_per_iter)
     IN  /\ b2_result' = r.value
         /\ IF r.raised # "" THEN b2_pc' = "raised" /\ UNCHANGED b2_chunk
            ELSE IF r.value = <<>> THEN b2_pc' = "delete" /\ UNCHANGED b2_chunk
            ELSE b2_pc' = "start" /\ b2_chunk' = 1
  /\ b2_k' = 1
  /\ UNCHANGED procs
  /\ B2Frame

\* p = mp.Process(target=main_executer, ...); processes.append(p); p.start().
ParStart ==
  /\ b2_pc = "start"
  /\ procs' = Append(procs, [scenario_name |-> b2_result[b2_chunk][b2_k],
                             chunk |-> b2_chunk, state |-> "alive"])
  /\ IF b2_k < Len(b2_result[b2_chunk])
     THEN b2_k' = b2_k + 1 /\ UNCHANGED b2_pc
     ELSE b2_k' = 1 /\ b2_pc' = "join"
  /\ UNCHANGED <<b2_result, b2_chunk>>
  /\ B2Frame

\* main_executer returns (or fails) in a child process: the process ends.
MainExecuterEnds ==
  /\ \E n \in DOMAIN procs :
       /\ procs[n].state = "alive"
       /\ procs' = [procs EXCEPT ![n].state = "terminated"]
  /\ UNCHANGED <<b2_pc, b2_result, b2_chunk, b2_k>>
  /\ B2Frame

\* Variant: join returns without waiting for the process.
ParJoin_NoWait ==
  /\ b2_pc = "join"
  /\ IF b2_k < Len(processes(b2_chunk))
     THEN b2_k' = b2_k + 1 /\ UNCHANGED <<b2_pc, b2_chunk>>
     ELSE /\ b2_k' = 1
          /\ IF b2_chunk < Len(b2_result)
             THEN b2_chunk' = b2_chunk + 1 /\ b2_pc' = "start"
             ELSE b2_pc' = "delete" /\ UNCHANGED b2_chunk
  /\ UNCHANGED <<b2_result, procs>>
  /\ B2Frame

\* process.join(): it returns once the process has terminated; after the
\* last join the next chunk begins, or the loop over the chunks ends.
ParJoin ==
  /\ b2_pc = "join"
  /\ processes(b2_chunk)[b2_k].state = "terminated"
  /\ IF b2_k < Len(processes(b2_chunk))
     THEN b2_k' = b2_k + 1 /\ UNCHANGED <<b2_pc, b2_chunk>>
     ELSE /\ b2_k' = 1
          /\ IF b2_chunk < Len(b2_result)
             THEN b2_chunk' = b2_chunk + 1 /\ b2_pc' = "start"
             ELSE b2_pc' = "delete" /\ UNCHANGED b2_chunk
  /\ UNCHANGED <<b2_result, procs>>
  /\ B2Frame

\* The loop that deletes the intermediate files of the scenarios.
DeleteFiles ==
  /\ b2_pc = "delete"
  /\ b2_pc' = "concat"
  /\ UNCHANGED <<b2_result, b2_chunk, b2_k, procs>>
  /\ B2Frame

\* concatenate_all_scenarios, when concat_scenarios_csv is set.
ConcatScenarios ==
  /\ b2_pc = "concat"
  /\ b2_pc' = "done"
  /\ UNCHANGED <<b2_result, b2_chunk, b2_k, procs>>
  /\ B2Frame

NextB2Main ==
  \/ ParChunks
  \/ ParStart
  \/ MainExecuterEnds
  \/ ParJoin
  \/ DeleteFiles
  \/ ConcatScenarios

SpecB2Main == InitB2Main /\ [][NextB2Main]_vars

(***************************************************************************)
(* Vocabulary of the properties.                                           *)
(***************************************************************************)
\* calculate_annualized_investment has just returned df_result.
Computed == pc = "round"
\* df_result holds the annualized column.
HasResult == pc \in {"round", "save", "report", "returned"}
\* annualize_capital_investment has rounded (or left) the column.
Finished == pc \in {"save", "report", "returned"}

UsedCols == existing_grouping_cols(df, grouping_columns)
UsedGroups == IF UsedCols = <<>> THEN {} ELSE Groups(df, UsedCols)
\* The rows whose grouping-key values all match those of row i, a value
\* missing in both being a match.
KeyGroup(i) ==
  {j \in DOMAIN df.rows : GroupKey(df, UsedCols, j) = GroupKey(df, UsedCols, i)}
AllGroups == IF UsedCols = <<>> THEN {} ELSE {KeyGroup(i) : i \in DOMAIN df.rows}
Investment(i) == df.rows[i][CAPITAL_COLUMN]
Year(i) == df.rows[i]["YEAR"]
Annualized(i) == df_result.rows[i][NEW_COLUMN_NAME]
Positive(g) == {j \in g : RatPos(Investment(j))}
DistinctYears(g) == \A i, j \in g : i # j => Year(i) # Year(j)
Payment(j) == RatMul(Investment(j), crf)

\* The sum of the payments of the investments of S whose window of L years covers y.
RECURSIVE SumPayments(_, _, _)
SumPayments(S, y, L) ==
  IF S = {} THEN Zero
  ELSE LET j == CHOOSE x \in S : TRUE
       IN  RatAdd(IF RatPos(Investment(j)) /\ Year(j) <= y /\ y <= Year(j) + L - 1
                  THEN Payment(j) ELSE Zero,
                  SumPayments(S \ {j}, y, L))

\* The table d with the investment of row i replaced by v.
WithInvestment(d, i, v) == [d EXCEPT !.rows[i][CAPITAL_COLUMN] = v]
\* The annualized value calculate_annualized_investment gives row i of table d.
AnnualizedIn(d, i) ==
  calculate_annualized_investment(d, crf, grouping_columns).rows[i][NEW_COLUMN_NAME]

(***************************************************************************)
(* C1.  After calculate_annualized_investment, in every group with a       *)
(* non-null investment, the annualized value of a row at year y is the sum *)
(* of investment * crf over the positive investments of the group at years *)
(* Y with Y <= y <= Y + L - 1, L the asset lifetime of the run.            *)
(***************************************************************************)
C1_WindowSum ==
  Computed =>
    \A g \in UsedGroups :
      (\E j \in g : ~IsNaN(Investment(j))) =>
        \A i \in g : Annualized(i) = SumPayments(g, Year(i), asset_lifetime)

(***************************************************************************)
(* C2.  Superposition: in a group of distinct years with two positive      *)
(* investments the annualized value of every row is the value with only    *)
(* the first present plus the value with only the second present; a year   *)
(* inside both windows shows both payments and a year inside only one      *)
(* window shows only that payment, the window of an investment being the   *)
(* asset_lifetime years that start at its year.                            *)
(***************************************************************************)
InWindow(j, i, L) == Year(j) <= Year(i) /\ Year(i) <= Year(j) + L - 1

C2_Superposition ==
  Computed =>
    \A g \in UsedGroups : \A a, b \in g :
      (a # b /\ Positive(g) = {a, b} /\ DistinctYears(g)) =>
        \A i \in g :
          LET only_a == AnnualizedIn(WithInvestment(df, b, Zero), i)
              only_b == AnnualizedIn(WithInvestment(df, a, Zero), i)
              in_a == InWindow(a, i, asset_lifetime)
              in_b == InWindow(b, i, asset_lifetime)
          IN  /\ Annualized(i) = RatAdd(only_a, only_b)
              /\ (in_a /\ in_b) => Annualized(i) = RatAdd(Payment(a), Payment(b))
              /\ (in_a /\ ~in_b) => Annualized(i) = Payment(a)

(***************************************************************************)
(* C3.  A group whose capital investments are all null has a null          *)
(* annualized value in every row, in the table returned and in the file    *)
(* written; a group is the set of the rows that share their grouping-key   *)
(* values.                                                                 *)
(***************************************************************************)
C3_AllNullStaysNull ==
  HasResult =>
    \A g \in AllGroups :
      (\A j \in g : IsNaN(Investment(j))) =>
        \A i \in g :
          /\ IsNaN(Annualized(i))
          /\ pc \in {"report", "returned"} => IsNaN(file.rows[i][NEW_COLUMN_NAME])

(***************************************************************************)
(* C4.  In a group with at least one numeric investment every row has a    *)
(* numeric annualized value, the one the table gives with the null         *)
(* investments of the group replaced by 0; a group is the set of the rows  *)
(* that share their grouping-key values, missing values included.          *)
(***************************************************************************)
RECURSIVE NullsAsZero(_, _)
NullsAsZero(d, S) ==
  IF S = {} THEN d
  ELSE LET j == CHOOSE x \in S : TRUE
       IN  NullsAsZero(IF IsNaN(d.rows[j][CAPITAL_COLUMN])
                       THEN WithInvestment(d, j, Zero) ELSE d, S \ {j})

C5_WindowIsLifetime ==
  Computed =>
    \A g \in UsedGroups : \A j \in g :
      (Positive(g) = {j} /\ DistinctYears(g)) =>
        \A i \in g :
          Annualized(i) = IF InWindow(j, i, asset_lifetime) THEN Payment(j) ELSE Zero

(***************************************************************************)
(* C6.  A file that has the column named by capital_column and the YEAR    *)
(* column is processed without a failed column lookup, and the table       *)
(* returned has the column named by new_column_name.                       *)
(***************************************************************************)
C6_NamedColumns ==
  /\ pc = "raised" =>
       err \notin {<<"KeyError", CAPITAL_COLUMN>>, <<"KeyError", new_column_name>>}
  /\ pc = "returned" => new_column_name \in df_result.columns

(***************************************************************************)
(* C7.  Every row belongs to exactly one group, the set of the rows whose  *)
(* grouping-key values all match its own (a key missing in both being a    *)
(* match), and receives the value computed for that group.                 *)
(***************************************************************************)
C7_EveryRowGrouped ==
  (Computed /\ UsedCols # <<>>) =>
    \A i \in DOMAIN df.rows :
      /\ {g \in UsedGroups : i \in g} = {KeyGroup(i)}
      /\ Annualized(i) =
           ProcessGroup(df_result.rows, df, KeyGroup(i), crf)[i][NEW_COLUMN_NAME]

(***************************************************************************)
(* C8.  As claimed: no value of the annualized column has more decimal     *)
(* places than d, the decimal places of the input capital column, for      *)
(* every d >= 0.                                                           *)
(***************************************************************************)
InputDecimals == get_decimal_places(Column(df, capital_column))
AtMostDecimals(v, d) == IsNaN(v) \/ (v[1] * Pow(10, d)) % v[2] = 0
\* |v - w| <= 10^-d / 2
WithinHalfUnit(v, w, d) ==
  2 * Pow(10, d) * Abs(v[1] * w[2] - w[1] * v[2]) <= v[2] * w[2]

SameRows(kept) ==
  /\ df = Table(file)
  /\ Len(df_result.rows) = Len(df.rows)
  /\ \A i \in DOMAIN df.rows :
       /\ DOMAIN df_result.rows[i] = df_result.columns
       /\ \A c \in kept : df_result.rows[i][c] = df.rows[i][c]

C9_ExactlyOneNewColumn ==
  Computed =>
    /\ SameRows(df.columns)
    /\ df.columns \subseteq df_result.columns
    /\ Cardinality(df_result.columns \ df.columns) = 1

(***************************************************************************)
(* C9, amended.  The rows are the same, in the same order, and every       *)
(* column other than CapitalInvestmentAnnualized holds its values; the     *)
(* columns of the result are those of the input and                        *)
(* CapitalInvestmentAnnualized, which is one more column unless the input  *)
(* already has it, and then it is overwritten.                             *)
(***************************************************************************)
C9_FrameOfCalculate ==
  Computed =>
    /\ SameRows(df.columns \ {NEW_COLUMN_NAME})
    /\ df_result.columns = df.columns \cup {NEW_COLUMN_NAME}

\* The second invocation: the input has the column, and a value of it is replaced.
C9_Witness ==
  /\ Computed
  /\ NEW_COLUMN_NAME \in df.columns
  /\ Len(df.rows) >= 2
  /\ \E i \in DOMAIN df.rows :
       /\ RatPos(Annualized(i))
       /\ Annualized(i) # df.rows[i][NEW_COLUMN_NAME]
  /\ \E i \in DOMAIN df.rows : ~Grouped(df, UsedCols, i)

(***************************************************************************)
(* C10.  With discount_rate = 0 and lifetime L, in a group of distinct     *)
(* years that include Y0 .. Y0+L-1 and a later year, a single investment I *)
(* at Y0 gives I/L at each of the years Y0 .. Y0+L-1 and 0 at every later  *)
(* year, and the payments of the group sum to I.                           *)
(***************************************************************************)
RECURSIVE SumAnnualized(_)
SumAnnualized(S) ==
  IF S = {} THEN Zero
  ELSE LET j == CHOOSE x \in S : TRUE
       IN  RatAdd(Annualized(j), SumAnnualized(S \ {j}))

C10_ZeroRateSplitsEvenly ==
  (Computed /\ discount_rate = Zero /\ asset_lifetime > 0) =>
    \A g \in UsedGroups : \A j \in g :
      ( /\ RatPos(Investment(j))
        /\ \A k \in g \ {j} : Investment(k) \in {Zero, NaN}
        /\ DistinctYears(g)
        /\ \A y \in Year(j)..(Year(j) + asset_lifetime - 1) : \E i \in g : Year(i) = y
        /\ \E i \in g : Year(i) > Year(j) + asset_lifetime - 1 ) =>
          /\ \A i \in g :
               /\ InWindow(j, i, asset_lifetime) =>
                    Annualized(i) = RatDiv(Investment(j), <<asset_lifetime, 1>>)
               /\ Year(i) > Year(j) + asset_lifetime - 1 => Annualized(i) = Zero
          /\ SumAnnualized(g) = Investment(j)

(***************************************************************************)
(* C11.  calculate_crf depends on (discount_rate, lifetime) alone: in      *)
(* every invocation, whatever the file and the earlier invocations, the    *)
(* CRF computed is 1/lifetime when discount_rate = 0 (lifetime > 0) and    *)
(* r*(1+r)^n / ((1+r)^n - 1) when discount_rate > 0.                       *)
(***************************************************************************)
CrfComputed == pc \in {"read", "validate", "calculate", "round", "save", "report", "returned"}

C11_CrfFormula ==
  CrfComputed =>
    LET r == discount_rate
        n == asset_lifetime
        growth == RatPow(<<r[1] + r[2], r[2]>>, n)
    IN  /\ (r = Zero /\ n > 0) => (crf[1] = 1 /\ crf[2] = n)
        /\ RatPos(r) =>
             RatMul(crf, RatAdd(growth, <<-1, 1>>)) = RatMul(r, growth)

\* A second invocation with rate 0 and the default lifetime.
C11_Witness ==
  /\ pc = "read"
  /\ runs = 2
  /\ discount_rate = Zero
  /\ asset_lifetime = ASSET_LIFETIME
  /\ crf = <<1, ASSET_LIFETIME>>

(***************************************************************************)
(* C12.  No partial write: when an invocation has ended with an error the  *)
(* file holds the content it had when the invocation began.                *)
(***************************************************************************)
C12_NoWriteOnError ==
  pc = "raised" => file = before

(***************************************************************************)
(* C13.  A table that lacks the column named by capital_column or the YEAR *)
(* column makes the invocation fail with ValueError before any group is    *)
(* computed and without a write of the file.                               *)
(***************************************************************************)
LacksRequired == capital_column \notin df.columns \/ "YEAR" \notin df.columns

C13_MissingColumn ==
  (df # NoTable /\ LacksRequired) =>
    /\ pc \in {"validate", "raised"}
    /\ df_result = NoTable
    /\ saves = 0
    /\ file = before
    /\ pc = "raised" => err[1] = "ValueError"

\* The file has CapitalInvestment, the caller names Capex.
C13_Witness ==
  /\ pc = "raised"
  /\ err = <<"ValueError", "Capex">>
  /\ CAPITAL_COLUMN \in df.columns
  /\ "YEAR" \in df.columns

(***************************************************************************)
(* C14.  With asset_lifetime <= 0 or discount_rate < 0 the invocation is   *)
(* rejected: it computes nothing, writes nothing and returns no table.     *)
(***************************************************************************)
C14_ParametersRejected ==
  (asset_lifetime <= 0 \/ discount_rate[1] < 0) =>
    /\ ~CrfComputed
    /\ saves = 0

(***************************************************************************)
(* C15.  When no grouping column can be determined, the invocation either  *)
(* ends with an error or treats all the rows as one group: it does not     *)
(* return a column that ignores the positive investments.                  *)
(***************************************************************************)
UniversalGroup ==
  ProcessGroup([i \in DOMAIN df.rows |-> WithCell(df.rows[i], NEW_COLUMN_NAME, Zero)],
               df, DOMAIN df.rows, crf)

C15_NoGroupingColumns ==
  (Computed /\ UsedCols = <<>> /\ \E j \in DOMAIN df.rows : RatPos(Investment(j))) =>
    \A i \in DOMAIN df.rows : Annualized(i) = UniversalGroup[i][NEW_COLUMN_NAME]

(***************************************************************************)
(* C16.  Idempotence: an invocation on the file written by an invocation   *)
(* that returned, with the same arguments, returns the same table and      *)
(* leaves the file with the same columns and values.                       *)
(***************************************************************************)
C16_Idempotent ==
  (pc = "returned" /\ prev = "returned") =>
    /\ file = before
    /\ df_result = Table(before)

\* The second invocation recomputed payments over a group of several rows
\* and rounded them.
C16_Witness ==
  /\ pc = "returned"
  /\ prev = "returned"
  /\ InputDecimals > 0
  /\ \E g \in UsedGroups :
       /\ Cardinality(g) >= 2
       /\ \E i \in g : RatPos(Annualized(i)) /\ Annualized(i) # AnnualizedIn(df, i)

(***************************************************************************)
(* C20.  Rows of a group with the same YEAR have the same annualized       *)
(* value, the sum of the payments of the investments of the group whose    *)
(* window covers the year.  The window is taken as the script takes it,    *)
(* ASSET_LIFETIME years, so that only the rows of equal year are at stake.  *)
(***************************************************************************)
C20_EqualYearsEqualValues ==
  Computed =>
    \A g \in UsedGroups :
      (\E j \in g : ~IsNaN(Investment(j))) =>
        \A i, k \in g :
          (i # k /\ Year(i) = Year(k)) =>
            /\ Annualized(i) = Annualized(k)
            /\ Annualized(i) = SumPayments(g, Year(i), ASSET_LIFETIME)

RECURSIVE Concat(_)
Concat(lists) == IF lists = <<>> THEN <<>> ELSE Head(lists) \o Concat(Tail(lists))

C19_Chunks ==
  /\ (b2_pc \in {"returned", "raised"} /\ max_x_per_iter <= 0) =>
       (b2_pc = "raised" /\ b2_result = <<>>)
  /\ (b2_pc \in {"returned", "raised"} /\ max_x_per_iter > 0) =>
       /\ b2_pc = "returned"
       /\ Concat(b2_result) = scenarios
       /\ \A k \in DOMAIN b2_result :
            /\ Len(b2_result[k]) >= 1
            /\ Len(b2_result[k]) <= max_x_per_iter
            /\ k < Len(b2_result) => Len(b2_result[k]) = max_x_per_iter

\* Several chunks, the last one shorter.
C19_Witness ==
  /\ b2_pc = "returned"
  /\ Len(b2_result) >= 2
  /\ Len(b2_result[Len(b2_result)]) < max_x_per_iter

(***************************************************************************)
(* C21.  With a positive investment in the table, the grouping columns     *)
(* that identify_effective_grouping_columns returns are the effective ones *)
(* among Future, Scenario, REGION, TECHNOLOGY, in that order, when at      *)
(* least one of the four is effective, and otherwise all the effective     *)
(* columns in candidate order.  A column is effective when, among the rows *)
(* with investment > 0, it has a value that is not null and its values are *)
(* not all zero.                                                           *)
(***************************************************************************)
EffectiveCol(c) ==
  /\ c \in df.columns
  /\ \E i \in DOMAIN df.rows : RatPos(Investment(i)) /\ df.rows[i][c] # KeyNaN
  /\ \E i \in DOMAIN df.rows : RatPos(Investment(i)) /\ df.rows[i][c] \notin {KeyNaN, "0"}
EffectiveList == SelectSeq(GROUPING_COLUMNS, EffectiveCol)
CanonicalEffective == SelectSeq(primary_grouping, EffectiveCol)
SomePositive == \E i \in DOMAIN df.rows : RatPos(Investment(i))
Identified == identify_effective_grouping_columns(df, grouping_columns)

C21_PrimaryAvailable ==
  (Computed /\ SomePositive) =>
    Identified = IF CanonicalEffective # <<>> THEN CanonicalEffective ELSE EffectiveList

\* The statement as claimed: the canonical set only when all four columns are
\* effective, else the full list of the effective columns.
C21_CanonicalOnlyWhenAll ==
  (Computed /\ SomePositive) =>
    Identified = IF CanonicalEffective = primary_grouping THEN primary_grouping
                 ELSE EffectiveList

\* TECHNOLOGY and FUEL are effective: TECHNOLOGY alone is returned.
C21_Witness ==
  /\ Computed /\ SomePositive
  /\ EffectiveList = << "TECHNOLOGY", "FUEL" >>
  /\ Identified = << "TECHNOLOGY" >>

(***************************************************************************)
(* C22.  When no row has capital investment > 0,                           *)
(* identify_effective_grouping_columns returns (TECHNOLOGY, REGION) if the *)
(* table has both columns and else nothing; the grouping of the run is     *)
(* that list or, when it is empty, the columns among Future, Scenario,     *)
(* REGION, TECHNOLOGY that the table has.  Every annualized value is then  *)
(* null, in a group that is all null, or 0.                                *)
(***************************************************************************)
InTable(c) == c \in df.columns
TechRegion ==
  IF {"TECHNOLOGY", "REGION"} \subseteq df.columns
  THEN << "TECHNOLOGY", "REGION" >> ELSE <<>>
\* The values that grouping by cols gives a table without positive investment.
ValuesWithout(cols) ==
  \A i \in DOMAIN df.rows :
    Annualized(i) =
      IF cols = <<>> \/ \E k \in DOMAIN cols : df.rows[i][cols[k]] = KeyNaN THEN Zero
      ELSE IF \A j \in DOMAIN df.rows :
                (\A k \in DOMAIN cols : df.rows[j][cols[k]] = df.rows[i][cols[k]])
                  => IsNaN(Investment(j))
      THEN NaN ELSE Zero

C22_NoPositiveGrouping ==
  (Computed /\ ~SomePositive) =>
    LET cols == IF TechRegion # <<>> THEN TechRegion
                ELSE SelectSeq(primary_grouping, InTable)
    IN  /\ Identified = TechRegion
        /\ UsedCols = cols
        /\ ValuesWithout(cols)
        /\ \A i \in DOMAIN df.rows : Annualized(i) \in {Zero, NaN}

\* The statement as claimed: the grouping of the run is (TECHNOLOGY, REGION)
\* or empty.
C22_TechRegionOrEmpty ==
  (Computed /\ ~SomePositive) =>
    /\ UsedCols = TechRegion
    /\ ValuesWithout(TechRegion)
    /\ \A i \in DOMAIN df.rows : Annualized(i) \in {Zero, NaN}

\* A table without REGION and without positive investment is grouped by
\* TECHNOLOGY: an all-null group is null.
C22_Witness ==
  /\ Computed /\ ~SomePositive
  /\ df.columns = {"TECHNOLOGY", "YEAR", CAPITAL_COLUMN}
  /\ UsedCols = << "TECHNOLOGY" >>
  /\ \E i \in DOMAIN df.rows : IsNaN(Annualized(i))
  /\ \E i \in DOMAIN df.rows : Annualized(i) = Zero

(***************************************************************************)
(* C23.  The annualized value of a row of a group with distinct years does *)
(* not depend on the order of the rows in the input: for every permutation *)
(* of the rows of the table, the row has the same value in the permuted    *)
(* table.                                                                  *)
(***************************************************************************)
RowOrders(n) == {p \in [1..n -> 1..n] : \A a, b \in 1..n : p[a] = p[b] => a = b}
\* The table whose row k is row p[k] of d.
Permuted(d, p) == [d EXCEPT !.rows = [k \in DOMAIN d.rows |-> d.rows[p[k]]]]

C23_OrderOfRows ==
  Computed =>
    \A p \in RowOrders(Len(df.rows)) :
      \A k \in DOMAIN df.rows :
        (\E g \in UsedGroups : p[k] \in g /\ DistinctYears(g)) =>
          AnnualizedIn(Permuted(df, p), k) = Annualized(p[k])

\* A group whose rows are not in the order of their years, a later row
\* holding the investment that pays into the year of an earlier row.
C23_Witness ==
  /\ Computed
  /\ \E g \in UsedGroups :
       /\ DistinctYears(g)
       /\ \E i, j \in g :
            /\ i < j /\ Year(j) < Year(i)
            /\ RatPos(Investment(j))
            /\ RatPos(Annualized(i))
            /\ ~RatPos(Investment(i))

(***************************************************************************)
(* C24.  Group independence: the annualized values of the rows of a group  *)
(* are those of the table that holds the rows of the group and any of the  *)
(* other rows, or none of them, whenever that table has the same grouping  *)
(* columns.                                                                *)
(***************************************************************************)
\* The position of row i among the rows S, and the table of the rows S of d.
PositionIn(S, i) == Cardinality({j \in S : j <= i})
Restricted(d, S) ==
  [d EXCEPT !.rows = [k \in 1..Cardinality(S) |->
                        d.rows[CHOOSE i \in S : PositionIn(S, i) = k]]]

C24_GroupIndependence ==
  Computed =>
    \A g \in UsedGroups :
      \A S \in SUBSET (DOMAIN df.rows) :
        (g \subseteq S /\ existing_grouping_cols(Restricted(df, S), grouping_columns) = UsedCols) =>
          \A i \in g : AnnualizedIn(Restricted(df, S), PositionIn(S, i)) = Annualized(i)

\* Two groups with payments; the first group alone has the same grouping columns.
C24_Witness ==
  /\ Computed
  /\ \E g, h \in UsedGroups :
       /\ g # h
       /\ SetMin(g) < SetMin(h)
       /\ \E i \in g : RatPos(Annualized(i))
       /\ \E j \in h : RatPos(Annualized(j))
       /\ existing_grouping_cols(Restricted(df, g), grouping_columns) = UsedCols

(***************************************************************************)
(* C25.  For crf > 0 every row with a positive investment I has an         *)
(* annualized value of at least I * crf; every group with a positive       *)
(* investment has a positive annualized sum; and the sum of the annualized *)
(* values of the table is at least crf times the sum of its positive       *)
(* investments.                                                            *)
(***************************************************************************)
RatGeq(a, b) == ~IsNaN(a) /\ ~IsNaN(b) /\ a[1] * b[2] >= b[1] * a[2]

\* Series.sum(): the null values are skipped.
RECURSIVE SumOf(_, _)
SumOf(series, S) ==
  IF S = {} THEN Zero
  ELSE LET j == CHOOSE x \in S : TRUE
       IN  RatAdd(IF IsNaN(series[j]) THEN Zero ELSE series[j], SumOf(series, S \ {j}))

C25_OwnYearPaymentLands ==
  (Computed /\ RatPos(crf)) =>
    LET annualized == Column(df_result, NEW_COLUMN_NAME)
        capital == Column(df, CAPITAL_COLUMN)
        positive == {i \in DOMAIN df.rows : RatPos(Investment(i))}
    IN  /\ \A i \in positive : RatGeq(Annualized(i), Payment(i))
        /\ \A g \in UsedGroups :
             Positive(g) # {} => RatPos(SumOf(annualized, g))
        /\ RatGeq(SumOf(annualized, DOMAIN df.rows),
                  RatMul(crf, SumOf(capital, positive)))

(***************************************************************************)
(* C26.  Only the rows with capital investment > 0 generate payments: with *)
(* an investment that is 0, negative or null replaced by 0, every value    *)
(* that is not null is the same; and for crf >= 0 every annualized value   *)
(* of the result that is not null is >= 0.                                 *)
(***************************************************************************)
C26_OnlyPositivePays ==
  /\ Computed =>
       \A j \in DOMAIN df.rows :
         ~RatPos(Investment(j)) =>
           \A i \in DOMAIN df.rows :
             ~IsNaN(Annualized(i)) =>
               AnnualizedIn(WithInvestment(df, j, Zero), i) = Annualized(i)
  /\ (HasResult /\ RatGeq(crf, Zero)) =>
       \A i \in DOMAIN df_result.rows :
         ~IsNaN(Annualized(i)) => RatGeq(Annualized(i), Zero)

\* A negative investment in the year before a positive one of its group:
\* the later row has the payment of its own investment alone.
C26_Witness ==
  /\ Computed /\ RatPos(crf)
  /\ \E g \in UsedGroups : \E i, j \in g :
       /\ ~IsNaN(Investment(j)) /\ Investment(j)[1] < 0
       /\ RatPos(Investment(i))
       /\ Year(j) < Year(i) /\ InWindow(j, i, ASSET_LIFETIME)
       /\ Annualized(j) = Zero
       /\ Annualized(i) = Payment(i)

(***************************************************************************)
(* C27.  In one invocation the file is read, the columns are validated,    *)
(* the groups are computed, the file is written and the report is made, in *)
(* that order: the file is overwritten at most once, and then with the     *)
(* table computed from the content read, after the validation of the       *)
(* columns has passed.                                                     *)
(***************************************************************************)
C27_WriteOnceInOrder ==
  /\ saves \in {0, 1}
  /\ saves = 0 => file = before
  /\ pc \in {"begin", "read"} => (df = NoTable /\ df_result = NoTable)
  /\ pc \in {"validate", "calculate"} => (df = Table(before) /\ df_result = NoTable)
  /\ pc \in {"calculate", "round", "save", "report", "returned"} =>
       {capital_column, "YEAR"} \subseteq df.columns
  /\ pc \in {"round", "save"} =>
       /\ saves = 0
       /\ df = Table(before)
       /\ Len(df_result.rows) = Len(df.rows)
       /\ NEW_COLUMN_NAME \in df_result.columns
  /\ saves = 1 =>
       /\ pc \in {"report", "returned", "raised"}
       /\ df = Table(before)
       /\ {capital_column, "YEAR"} \subseteq df.columns
       /\ Table(file) = df_result
       /\ Len(df_result.rows) = Len(df.rows)
       /\ NEW_COLUMN_NAME \in df_result.columns

\* An invocation that has returned after the one write, which changed the file.
C27_Witness ==
  /\ pc = "returned"
  /\ saves = 1
  /\ file # before
  /\ Table(file) = df_result

(***************************************************************************)
(* C28.  B2_Executing_OG_Model.py in parallel mode: no scenario has two    *)
(* main_executer processes and, once the chunks are done, every scenario   *)
(* has one; at most max_x_per_iter processes are alive at any time; every  *)
(* process of a chunk has terminated when a process of a later chunk is    *)
(* started; the deletion of files and the concatenation begin only when    *)
(* every process has terminated.                                           *)
(***************************************************************************)
Alive == {n \in DOMAIN procs : procs[n].state = "alive"}
ProcessesOf(name) == {n \in DOMAIN procs : procs[n].scenario_name = name}

C28_ParallelChunks ==
  /\ \A name \in Range(scenarios) : Cardinality(ProcessesOf(name)) <= 1
  /\ \A n \in DOMAIN procs : procs[n].scenario_name \in Range(scenarios)
  /\ b2_pc \in {"delete", "concat", "done"} =>
       /\ \A name \in Range(scenarios) : Cardinality(ProcessesOf(name)) = 1
       /\ Alive = {}
  /\ Alive # {} => Cardinality(Alive) <= max_x_per_iter
  /\ \A n, q \in DOMAIN procs :
       procs[n].chunk < procs[q].chunk => procs[n].state = "terminated"

\* Two chunks have run, the second with a single process, and the files
\* are being deleted.
C28_Witness ==
  /\ b2_pc = "delete"
  /\ Len(b2_result) >= 2
  /\ max_x_per_iter >= 2
  /\ Len(procs) = Len(scenarios)
  /\ Alive = {}

(***************************************************************************)
(* C29.  B1_Run_Compiler.py: whenever B1_Compiler.py is executed,          *)
(* xtra_scen.Main_Scenario of the YAML file is the scenario of the pass;   *)
(* the compiler is executed for a scenario only after the update of that   *)
(* scenario has succeeded; the scenarios are processed in the sorted order *)
(* of the folders, each at most once; and when the loop ends normally      *)
(* every scenario has been processed, whatever updates failed and whatever *)
(* exit codes the compiler gave.                                           *)
(***************************************************************************)
CompilerEvents == {"compiled", "compiler failed"}
UpdateEvents == {"updated", "update failed"}
FolderOrder(name) == CHOOSE k \in DOMAIN ScenarioNames : ScenarioNames[k] = name

C29_CompilerPerScenario ==
  /\ b1_pc = "compile" =>
       yaml_file.text = <<"xtra_scen", <<scenario_suffixes[b1_i]>> >>
  /\ \A n \in DOMAIN b1_log :
       b1_log[n][2] \in CompilerEvents =>
         (n > 1 /\ b1_log[n - 1] = <<b1_log[n][1], "updated">>)
  /\ \A n, q \in DOMAIN b1_log :
       n < q =>
         /\ b1_log[n][1] <= b1_log[q][1]
         /\ (b1_log[n][1] = b1_log[q][1]) =>
              (b1_log[n][2] = "updated" /\ b1_log[q][2] \in CompilerEvents)
  /\ \A a, b \in DOMAIN scenario_suffixes :
       a < b => FolderOrder(scenario_suffixes[a]) < FolderOrder(scenario_suffixes[b])
  /\ b1_pc = "done" =>
       \A i \in DOMAIN scenario_suffixes :
         \/ \E n \in DOMAIN b1_log : b1_log[n] = <<i, "update failed">>
         \/ \E n \in DOMAIN b1_log :
              b1_log[n][1] = i /\ b1_log[n][2] \in CompilerEvents

(***************************************************************************)
(* C30.  run.py: "dvc pull" is executed only when a DVC remote is          *)
(* configured; "conda env create" is executed only when the environment    *)
(* does not exist; "dvc repro" is executed only after the patch, the       *)
(* environment step, the dependency check and the repository check have    *)
(* completed without error, in that order, and never after a step that     *)
(* failed.                                                                 *)
(***************************************************************************)
Ran(step) == \E n \in DOMAIN run_log : run_log[n][1] = step

C30_StepsInOrder ==
  /\ Ran("dvc pull") => dvc_remote
  /\ Ran("conda env create") => ~conda_env
  /\ \A n \in DOMAIN run_log :
       run_log[n][1] = "dvc repro" =>
         \E a, b, c, d \in 1..(n - 1) :
           /\ a < b /\ b < c /\ c < d
           /\ run_log[a] = <<"patch", "ok">>
           /\ run_log[b] \in {<<"env exists", "ok">>, <<"conda env create", "ok">>}
           /\ run_log[c] = <<"ensure_deps", "ok">>
           /\ run_log[d] = <<"ensure_dvc_repo", "ok">>
  /\ \A n, q \in DOMAIN run_log :
       (n < q /\ run_log[n][2] = "failed") => run_log[q][1] # "dvc repro"

====
